---- MODULE Spec2Model ----
(***************************************************************************)
(* Model of the two scripts of the repository:                             *)
(*   read_pdf.py  - the Extractor: pdfplumber first, PyPDF2 as fallback,   *)
(*                  the text saved to asi_arch_paper.txt and previewed;    *)
(*   serve.py     - the DevServer: a TCPServer with a CORS-adding request  *)
(*                  handler on the main thread and a daemon thread that    *)
(*                  opens the browser.                                     *)
(* The two scripts share nothing; each has its own specification           *)
(* (SpecExtractor, SpecServer, FairSpecServer) over its own variables.     *)
(***************************************************************************)
EXTENDS Integers, Sequences, FiniteSets

(***************************************************************************)
(* Bounds of the model.                                                    *)
(***************************************************************************)
MaxPages == 2
MaxRequests == 2

(***************************************************************************)
(* Program constants.                                                      *)
(***************************************************************************)
PREVIEW_LEN == 2000

VARIABLES
    \* ---- read_pdf.py ----
    xpc,            \* position of the script
    numPages,       \* number of pages of the PDF at pdf_path
    text,           \* the accumulator `text` of the running read_pdf_with_* call
    pageIdx,        \* index of the next page the running loop extracts
    plumberPages,   \* what page.extract_text() gave pdfplumber, page by page
    pypdfPages,     \* what page.extract_text() gave PyPDF2, page by page
    content,        \* the script's variable `content`
    primary,        \* outcome of read_pdf_with_pdfplumber: "none", "returned", "raised"
    fallback,       \* outcome of read_pdf_with_pypdf2: "none", "running", "returned", "raised"
    outFile,        \* asi_arch_paper.txt: [exists, data]
    oldFile,        \* asi_arch_paper.txt as it was before the run
    fileTouched,    \* the run has created or truncated asi_arch_paper.txt
    lastSave,       \* the last open-and-write of the run: "none", "ok", "failed"
    stdout,         \* what the script printed: a sequence of <<message, argument>>
    \* ---- serve.py ----
    mpc,            \* position of the main thread
    bpc,            \* position of browser_thread
    listener,       \* the listening socket: "unbound", "bound", "bind_failed", "closed"
    is_shut_down,   \* the event BaseServer.__is_shut_down
    shutdown_flag,  \* the flag BaseServer.__shutdown_request
    sigint,         \* where the interrupt was raised: "none", "startup", "pre_loop",
                    \* "waiting" (in select), "handling" (in a request handler)
    exited,         \* the process has exited
    opened,         \* webbrowser.open has returned: "no", "bound", "unbound"
    launches,       \* number of calls of webbrowser.open
    cur,            \* the request being handled, and bpc when it was accepted
    wire,           \* what has been written to the socket of the request being handled
    responses,      \* the requests whose connection has been closed
    nreq            \* number of connections accepted

xvars == <<xpc, numPages, text, pageIdx, plumberPages, pypdfPages, content,
           primary, fallback, outFile, oldFile, fileTouched, lastSave, stdout>>

svars == <<mpc, bpc, listener, is_shut_down, shutdown_flag, sigint, exited, opened,
           launches, cur, wire, responses, nreq>>

vars == <<xvars, svars>>

(***************************************************************************)
(* Texts are sequences of characters; "nl" is the newline character.       *)
(***************************************************************************)
NL == <<"nl">>

Rep(c, n) == [i \in 1..n |-> c]

ShortText == <<"a">>
MultiLineText == <<"b", "nl", "c">>
LongText == Rep("x", PREVIEW_LEN)

\* What page.extract_text() can do for one page: return None, return a
\* string (possibly empty), or raise.
PageTexts == {<<>>, ShortText, MultiLineText, LongText}

PageOutcomes == {[kind |-> "none", text |-> <<>>], [kind |-> "raise", text |-> <<>>]}
                \cup {[kind |-> "str", text |-> t] : t \in PageTexts}

\* Python truthiness of page_text (None and "" are falsy).
Truthy(o) == o.kind = "str" /\ o.text # <<>>

Min(a, b) == IF a < b THEN a ELSE b

Printed(msg) == \E i \in 1..Len(stdout) : stdout[i][1] = msg

Emit(out, msg, arg) == Append(out, <<msg, arg>>)

(***************************************************************************)
(* read_pdf_with_pdfplumber, lines 13-21.                                  *)
(***************************************************************************)
\* lines 18-20 without the guard
PlumberAppendUnguarded(t, o) == t \o o.text \o NL

\* lines 18-20: if page_text: text += page_text + "\n"
PlumberAppend(t, o) == IF Truthy(o) THEN t \o o.text \o NL ELSE t

\* line 10: text += page.extract_text() + "\n"   (o is a string here)
PypdfAppend(t, o) == t \o o.text \o NL

(***************************************************************************)
(* The output file, lines 32-33 and 46-47.                                 *)
(***************************************************************************)
\* open(..., "a"): keeps what is there
OpenAppend(f) == [exists |-> TRUE, data |-> IF f.exists THEN f.data ELSE <<>>]

\* open("asi_arch_paper.txt", "w", encoding="utf-8"): creates or truncates
OpenWrite(f) == [exists |-> TRUE, data |-> <<>>]

\* f.write(content) and the close of the with block
FileWrite(f, c) == [exists |-> TRUE, data |-> f.data \o c]

\* A write that raises leaves a proper prefix of the text in the file; the
\* model keeps three representative lengths of that prefix.
PartialLens(c) == {k \in {0, 1, Len(c) - 1} : k >= 0 /\ k < Len(c)}

\* line 38: content[:2000]
Preview(c) == SubSeq(c, 1, Min(PREVIEW_LEN, Len(c)))

(***************************************************************************)
(* Initial state of the Extractor: a PDF of 0..MaxPages pages, and the     *)
(* output file absent or left by an earlier run.                           *)
(***************************************************************************)
\* serve.py before it is run
ServerIdle ==
    /\ mpc = "start"
    /\ bpc = "unstarted"
    /\ listener = "unbound"
    /\ is_shut_down = FALSE
    /\ shutdown_flag = FALSE
    /\ sigint = "none"
    /\ exited = FALSE
    /\ opened = "no"
    /\ launches = 0
    /\ cur = [req |-> [words |-> 0, method |-> "", target |-> "", version |-> ""],
              browser |-> ""]
    /\ wire = <<>>
    /\ responses = <<>>
    /\ nreq = 0

OldFiles == {[exists |-> FALSE, data |-> <<>>], [exists |-> TRUE, data |-> <<"o", "nl">>]}

InitExtractor ==
    /\ ServerIdle
    /\ xpc = "start"
    /\ numPages \in 0..MaxPages
    /\ text = <<>>
    /\ pageIdx = 1
    /\ plumberPages = <<>>
    /\ pypdfPages = <<>>
    /\ content = <<>>
    /\ primary = "none"
    /\ fallback = "none"
    /\ oldFile \in OldFiles
    /\ outFile = oldFile
    /\ fileTouched = FALSE
    /\ lastSave = "none"
    /\ stdout = <<>>

\* lines 40-42: except Exception as e: report, then try PyPDF2
ExceptPrimary(out) ==
    /\ stdout' = Emit(Emit(out, "Error with pdfplumber", <<>>), "Trying PyPDF2...", <<>>)
    /\ xpc' = "pypdf_open"
    /\ fallback' = "running"

\* lines 48-49: except Exception as e2: report
ExceptFallback(out) ==
    /\ stdout' = Emit(out, "Error with PyPDF2", <<>>)
    /\ xpc' = "done"

\* line 26
MainStart ==
    /\ xpc = "start"
    /\ UNCHANGED svars
    /\ stdout' = Emit(stdout, "Reading PDF with pdfplumber...", <<>>)
    /\ xpc' = "plumber_open"
    /\ UNCHANGED <<numPages, text, pageIdx, plumberPages, pypdfPages, content,
                   primary, fallback, outFile, oldFile, fileTouched, lastSave>>

\* lines 15-16: text = ""; pdfplumber.open(file_path) opens or raises
PlumberOpen ==
    /\ xpc = "plumber_open"
    /\ UNCHANGED svars
    /\ \/ /\ text' = <<>>
          /\ pageIdx' = 1
          /\ xpc' = "plumber_page"
          /\ UNCHANGED <<primary, fallback, stdout>>
       \/ /\ primary' = "raised"
          /\ ExceptPrimary(stdout)
          /\ UNCHANGED <<text, pageIdx>>
    /\ UNCHANGED <<numPages, plumberPages, pypdfPages, content, outFile, oldFile,
                   fileTouched, lastSave>>

\* lines 17-20: one iteration of the loop over pdf.pages
PlumberPage ==
    /\ xpc = "plumber_page"
    /\ UNCHANGED svars
    /\ pageIdx <= numPages
    /\ \E o \in PageOutcomes :
          /\ plumberPages' = Append(plumberPages, o)
          /\ IF o.kind = "raise"
             THEN /\ primary' = "raised"
                  /\ ExceptPrimary(stdout)
                  /\ UNCHANGED <<text, pageIdx>>
             ELSE /\ text' = PlumberAppend(text, o)
                  /\ pageIdx' = pageIdx + 1
                  /\ UNCHANGED <<xpc, primary, fallback, stdout>>
    /\ UNCHANGED <<numPages, pypdfPages, content, outFile, oldFile, fileTouched, lastSave>>

\* line 21 and lines 28-29: return text; content = ...; print the length
PlumberReturn ==
    /\ xpc = "plumber_page"
    /\ UNCHANGED svars
    /\ pageIdx > numPages
    /\ content' = text
    /\ primary' = "returned"
    /\ stdout' = Emit(stdout, "Successfully extracted", <<Len(text)>>)
    /\ xpc' = "primary_open_out"
    /\ UNCHANGED <<numPages, text, pageIdx, plumberPages, pypdfPages, fallback,
                   outFile, oldFile, fileTouched, lastSave>>

\* line 32: open the output file for writing, or raise
PrimaryOpenOut ==
    /\ xpc = "primary_open_out"
    /\ UNCHANGED svars
    /\ \/ /\ outFile' = OpenWrite(outFile)
          /\ fileTouched' = TRUE
          /\ xpc' = "primary_write"
          /\ UNCHANGED <<fallback, stdout, lastSave>>
       \/ /\ lastSave' = "failed"
          /\ ExceptPrimary(stdout)
          /\ UNCHANGED <<outFile, fileTouched>>
    /\ UNCHANGED <<numPages, text, pageIdx, plumberPages, pypdfPages, content,
                   primary, oldFile>>

\* lines 33-37: write and close, then the two prints; or the write raises
PrimaryWrite ==
    /\ xpc = "primary_write"
    /\ UNCHANGED svars
    /\ \/ /\ outFile' = FileWrite(outFile, content)
          /\ lastSave' = "ok"
          /\ stdout' = Emit(Emit(stdout, "Content saved", <<>>), "PREVIEW header", <<>>)
          /\ xpc' = "primary_preview"
          /\ UNCHANGED fallback
       \/ /\ \E k \in PartialLens(content) :
                outFile' = FileWrite(outFile, SubSeq(content, 1, k))
          /\ lastSave' = "failed"
          /\ ExceptPrimary(stdout)
    /\ UNCHANGED <<numPages, text, pageIdx, plumberPages, pypdfPages, content,
                   primary, oldFile, fileTouched>>

\* line 38: print(content[:2000]), or the print raises (an encoding error of
\* the console, a closed pipe)
PrimaryPreview ==
    /\ xpc = "primary_preview"
    /\ UNCHANGED svars
    /\ \/ /\ stdout' = Emit(stdout, "preview", Preview(content))
          /\ xpc' = "done"
          /\ UNCHANGED fallback
       \/ ExceptPrimary(stdout)
    /\ UNCHANGED <<numPages, text, pageIdx, plumberPages, pypdfPages, content,
                   primary, outFile, oldFile, fileTouched, lastSave>>

\* lines 6-8: text = ""; open(file_path, 'rb') and PdfReader(file), or raise
PypdfOpen ==
    /\ xpc = "pypdf_open"
    /\ UNCHANGED svars
    /\ \/ /\ text' = <<>>
          /\ pageIdx' = 1
          /\ xpc' = "pypdf_page"
          /\ UNCHANGED <<fallback, stdout>>
       \/ /\ fallback' = "raised"
          /\ ExceptFallback(stdout)
          /\ UNCHANGED <<text, pageIdx>>
    /\ UNCHANGED <<numPages, plumberPages, pypdfPages, content, primary, outFile,
                   oldFile, fileTouched, lastSave>>

\* lines 9-10: one iteration; None + "\n" is a TypeError
PypdfPage ==
    /\ xpc = "pypdf_page"
    /\ UNCHANGED svars
    /\ pageIdx <= numPages
    /\ \E o \in PageOutcomes :
          /\ pypdfPages' = Append(pypdfPages, o)
          /\ IF o.kind # "str"
             THEN /\ fallback' = "raised"
                  /\ ExceptFallback(stdout)
                  /\ UNCHANGED <<text, pageIdx>>
             ELSE /\ text' = PypdfAppend(text, o)
                  /\ pageIdx' = pageIdx + 1
                  /\ UNCHANGED <<xpc, fallback, stdout>>
    /\ UNCHANGED <<numPages, plumberPages, content, primary, outFile, oldFile,
                   fileTouched, lastSave>>

\* line 11 and lines 44-45
PypdfReturn ==
    /\ xpc = "pypdf_page"
    /\ UNCHANGED svars
    /\ pageIdx > numPages
    /\ content' = text
    /\ fallback' = "returned"
    /\ stdout' = Emit(stdout, "Successfully extracted with PyPDF2", <<Len(text)>>)
    /\ xpc' = "fallback_open_out"
    /\ UNCHANGED <<numPages, text, pageIdx, plumberPages, pypdfPages, primary,
                   outFile, oldFile, fileTouched, lastSave>>

\* line 46
FallbackOpenOut ==
    /\ xpc = "fallback_open_out"
    /\ UNCHANGED svars
    /\ \/ /\ outFile' = OpenWrite(outFile)
          /\ fileTouched' = TRUE
          /\ xpc' = "fallback_write"
          /\ UNCHANGED <<stdout, lastSave>>
       \/ /\ lastSave' = "failed"
          /\ ExceptFallback(stdout)
          /\ UNCHANGED <<outFile, fileTouched>>
    /\ UNCHANGED <<numPages, text, pageIdx, plumberPages, pypdfPages, content,
                   primary, fallback, oldFile>>

\* line 47: the script ends after the write; no preview is printed here
FallbackWrite ==
    /\ xpc = "fallback_write"
    /\ UNCHANGED svars
    /\ \/ /\ outFile' = FileWrite(outFile, content)
          /\ lastSave' = "ok"
          /\ xpc' = "done"
          /\ UNCHANGED stdout
       \/ /\ \E k \in PartialLens(content) :
                outFile' = FileWrite(outFile, SubSeq(content, 1, k))
          /\ lastSave' = "failed"
          /\ ExceptFallback(stdout)
    /\ UNCHANGED <<numPages, text, pageIdx, plumberPages, pypdfPages, content,
                   primary, fallback, oldFile, fileTouched>>

NextExtractor ==
    \/ MainStart
    \/ PlumberOpen
    \/ PlumberPage
    \/ PlumberReturn
    \/ PrimaryOpenOut
    \/ PrimaryWrite
    \/ PrimaryPreview
    \/ PypdfOpen
    \/ PypdfPage
    \/ PypdfReturn
    \/ FallbackOpenOut
    \/ FallbackWrite

SpecExtractor == InitExtractor /\ [][NextExtractor]_vars

(***************************************************************************)
(* Properties of the Extractor.                                            *)
(***************************************************************************)
RECURSIVE KeptSegments(_)
\* One newline-terminated segment per page that has text, in page order.
KeptSegments(pages) ==
    IF pages = <<>> THEN <<>>
    ELSE (IF Truthy(Head(pages)) THEN Head(pages).text \o NL ELSE <<>>)
         \o KeptSegments(Tail(pages))

RECURSIVE AllSegments(_)
\* One newline-terminated segment per page, empty for a page without text.
AllSegments(pages) ==
    IF pages = <<>> THEN <<>>
    ELSE Head(pages).text \o NL \o AllSegments(Tail(pages))

\* `content` still holds what read_pdf_with_pdfplumber returned.
PlumberTextInContent == primary = "returned" /\ fallback # "returned"

\* The run ended with a strategy's text saved and no total failure reported.
SuccessfulRun == xpc = "done" /\ ~Printed("Error with PyPDF2")

\* C1: the fallback strategy is invoked only if the primary strategy raised
\* (never after the primary extraction returned a text), and a run whose
\* primary strategy raised attempts the fallback before it ends.
C1_FallbackOnlyIfPrimaryRaises ==
    /\ fallback # "none" => primary = "raised"
    /\ xpc = "done" /\ primary = "raised" => fallback # "none"

\* C2: a run that ends with both the primary error and the fallback error
\* reported has not created or overwritten the output file.
C2_NoWriteWhenBothErrorsReported ==
    xpc = "done" /\ Printed("Error with pdfplumber") /\ Printed("Error with PyPDF2")
        => ~fileTouched /\ outFile = oldFile

\* C3 as stated: after a run in which a strategy returned a text, the output
\* file holds exactly that text, whatever it held before.
C3_FileEqualsReturnedText ==
    xpc = "done" /\ (primary = "returned" \/ fallback = "returned")
        => outFile.exists /\ outFile.data = content

\* C3 as amended: after a run whose last save (open and write) completed,
\* the output file holds exactly the text that save was given, whatever the
\* file held before; and for a single-page document with extractable text T
\* the text a strategy returns is T followed by a newline.
C3_SavedTextIsFileContents ==
    /\ xpc = "done" /\ lastSave = "ok" => outFile.exists /\ outFile.data = content
    /\ PlumberTextInContent /\ numPages = 1 /\ Truthy(plumberPages[1])
           => content = plumberPages[1].text \o NL
    /\ fallback = "returned" /\ numPages = 1 /\ Truthy(pypdfPages[1])
           => content = pypdfPages[1].text \o NL

\* C3 witness: a finished run over a single page with text, saved over an
\* older file.
C3_Witness ==
    /\ xpc = "done" /\ lastSave = "ok" /\ oldFile.exists
    /\ numPages = 1 /\ fallback = "returned" /\ Truthy(pypdfPages[1])
    /\ outFile.data = ShortText \o NL

\* C4: every successful run, by the primary or by the fallback strategy,
\* produces a preview of at most 2000 characters that equals the first 2000
\* characters of the output file (the whole file if it is shorter).
C4_PreviewOnEverySuccessfulRun ==
    SuccessfulRun =>
        \E i \in 1..Len(stdout) :
            /\ stdout[i][1] = "preview"
            /\ Len(stdout[i][2]) <= PREVIEW_LEN
            /\ stdout[i][2] = SubSeq(outFile.data, 1, Min(PREVIEW_LEN, Len(outFile.data)))

\* C5 as stated: the text read_pdf_with_pdfplumber returns for N pages is N
\* newline-terminated segments, one per page in order, empty for a page
\* without extractable text.
C5_OneSegmentPerPage ==
    PlumberTextInContent =>
        Len(plumberPages) = numPages /\ content = AllSegments(plumberPages)

\* C5 as amended: the text read_pdf_with_pdfplumber returns is one
\* newline-terminated segment per page that has extractable text, in page
\* order; a page without text contributes nothing.
C5_OneSegmentPerPageWithText ==
    PlumberTextInContent =>
        Len(plumberPages) = numPages /\ content = KeptSegments(plumberPages)

\* C5 witness: pdfplumber returned for two pages, one with and one without text.
C5_Witness ==
    /\ PlumberTextInContent /\ numPages = 2
    /\ ~Truthy(plumberPages[1]) /\ Truthy(plumberPages[2])

(***************************************************************************)
(* serve.py: the DevServer.                                                *)
(***************************************************************************)
\* read_pdf.py before it is run
ExtractorIdle ==
    /\ xpc = "start"
    /\ numPages = 0
    /\ text = <<>>
    /\ pageIdx = 1
    /\ plumberPages = <<>>
    /\ pypdfPages = <<>>
    /\ content = <<>>
    /\ primary = "none"
    /\ fallback = "none"
    /\ oldFile = [exists |-> FALSE, data |-> <<>>]
    /\ outFile = oldFile
    /\ fileTouched = FALSE
    /\ lastSave = "none"
    /\ stdout = <<>>

InitServer == ExtractorIdle /\ ServerIdle

NoRequest == [req |-> [words |-> 0, method |-> "", target |-> "", version |-> ""],
              browser |-> ""]

\* The request lines a client can send: `words` is the number of words of the
\* line (0 stands for a line longer than 65536 bytes).
Requests ==
    {[words |-> 1, method |-> "GET", target |-> "", version |-> ""],
     [words |-> 0, method |-> "", target |-> "", version |-> ""],
     [words |-> 2, method |-> "GET", target |-> "file", version |-> ""],
     [words |-> 3, method |-> "GET", target |-> "file", version |-> "HTTP/1.1"],
     [words |-> 3, method |-> "GET", target |-> "missing", version |-> "HTTP/1.1"],
     [words |-> 3, method |-> "HEAD", target |-> "file", version |-> "HTTP/1.1"],
     [words |-> 3, method |-> "POST", target |-> "file", version |-> "HTTP/1.1"]}

CRLF == <<"CRLF", "">>

CorsHeaders ==
    {<<"Access-Control-Allow-Origin", "*">>,
     <<"Access-Control-Allow-Methods", "GET, POST, OPTIONS">>,
     <<"Access-Control-Allow-Headers", "*">>}

\* The state of a request handler: request_version, command, _headers_buffer
\* and what it has written to wfile.
Handler(ver, cmd) == [ver |-> ver, cmd |-> cmd, buf |-> <<>>, out |-> <<>>]

\* BaseHTTPRequestHandler.send_response_only
SendResponseOnly(h, code) ==
    IF h.ver # "HTTP/0.9" THEN [h EXCEPT !.buf = Append(@, <<"status", code>>)] ELSE h

\* BaseHTTPRequestHandler.send_header
SendHeader(h, keyword, value) ==
    IF h.ver # "HTTP/0.9" THEN [h EXCEPT !.buf = Append(@, <<keyword, value>>)] ELSE h

\* BaseHTTPRequestHandler.send_response
SendResponse(h, code) ==
    SendHeader(SendHeader(SendResponseOnly(h, code), "Server", "SimpleHTTP"), "Date", "now")

\* BaseHTTPRequestHandler.end_headers, called by line 24
BaseEndHeaders(h) ==
    IF h.ver # "HTTP/0.9"
    THEN [h EXCEPT !.out = @ \o h.buf \o <<CRLF>>, !.buf = <<>>]
    ELSE h

\* end_headers without lines 21-23
end_headers_plain(h) == BaseEndHeaders(h)

\* MyHTTPRequestHandler.end_headers, lines 19-24
end_headers(h) ==
    BaseEndHeaders(
        SendHeader(SendHeader(SendHeader(h,
            "Access-Control-Allow-Origin", "*"),
            "Access-Control-Allow-Methods", "GET, POST, OPTIONS"),
            "Access-Control-Allow-Headers", "*"))

\* BaseHTTPRequestHandler.send_error up to end_headers()
SendError(h, code) ==
    end_headers(
        SendHeader(SendHeader(SendHeader(SendResponse(h, code),
            "Connection", "close"),
            "Content-Type", "text/html"),
            "Content-Length", "n"))

\* SimpleHTTPRequestHandler.send_head for a file that exists
SendHead(h) ==
    end_headers(
        SendHeader(SendHeader(SendHeader(SendResponse(h, 200),
            "Content-type", "guessed"),
            "Content-Length", "n"),
            "Last-Modified", "mtime"))

\* handle_one_request and parse_request up to the end of the header section:
\* request_version is still the default "HTTP/0.9" when parse_request
\* rejects the request line, and "" when the line is too long.
HandleHeadOf(r) ==
    IF r.words = 0 THEN SendError(Handler("", ""), 414)
    ELSE IF r.words = 1 THEN SendError(Handler("HTTP/0.9", "none"), 400)
    ELSE LET h == Handler(IF r.words = 2 THEN "HTTP/0.9" ELSE r.version, r.method)
         IN IF r.method \notin {"GET", "HEAD"} THEN SendError(h, 501)
            ELSE IF r.target = "missing" THEN SendError(h, 404)
            ELSE SendHead(h)

\* The status a response body belongs to.
StatusOf(r) ==
    IF r.words = 0 THEN 414
    ELSE IF r.words = 1 THEN 400
    ELSE IF r.method \notin {"GET", "HEAD"} THEN 501
    ELSE IF r.target = "missing" THEN 404
    ELSE 200

\* send_error: if self.command != 'HEAD' and body; do_HEAD sends no file
HasBody(r) == ~(r.words = 3 /\ r.version = "HTTP/1.1" /\ r.method = "HEAD")

InLoop(pc) == pc \in {"select", "parse", "body", "finish"}

\* line 54: browser_thread.daemon = False
BrowserThreadNotDaemon == FALSE

\* line 54: browser_thread.daemon = True
BrowserThreadDaemon == TRUE

\* lines 53-55: create and start browser_thread, then call start_server
StartBrowserThread ==
    /\ mpc = "start" /\ ~exited
    /\ bpc' = "sleep"
    /\ mpc' = "bind"
    /\ UNCHANGED <<listener, is_shut_down, shutdown_flag, sigint, exited, opened,
                   launches, cur, wire, responses, nreq>>
    /\ UNCHANGED xvars

\* line 32: TCPServer(("", PORT), MyHTTPRequestHandler) binds and listens, or
\* raises OSError, which nothing catches
Bind ==
    /\ mpc = "bind" /\ ~exited
    /\ \/ listener' = "bound" /\ mpc' = "banner"
       \/ listener' = "bind_failed" /\ mpc' = "crashed"
    /\ UNCHANGED <<bpc, is_shut_down, shutdown_flag, sigint, exited, opened,
                   launches, cur, wire, responses, nreq>>
    /\ UNCHANGED xvars

\* lines 33-39: the banner, then the try block is entered
Banner ==
    /\ mpc = "banner" /\ ~exited
    /\ mpc' = "call_serve"
    /\ UNCHANGED <<bpc, listener, is_shut_down, shutdown_flag, sigint, exited, opened,
                   launches, cur, wire, responses, nreq>>
    /\ UNCHANGED xvars

\* line 40: serve_forever() clears __is_shut_down and enters its try block
ServeForever ==
    /\ mpc = "call_serve" /\ ~exited
    /\ is_shut_down' = FALSE
    /\ mpc' = "select"
    /\ UNCHANGED <<bpc, listener, shutdown_flag, sigint, exited, opened,
                   launches, cur, wire, responses, nreq>>
    /\ UNCHANGED xvars

\* serve_forever: select() reports a connection; get_request accepts it and
\* the handler reads the request line
Accept ==
    /\ mpc = "select" /\ ~exited
    /\ ~shutdown_flag
    /\ nreq < MaxRequests
    /\ \E r \in Requests : cur' = [req |-> r, browser |-> bpc]
    /\ wire' = <<>>
    /\ nreq' = nreq + 1
    /\ mpc' = "parse"
    /\ UNCHANGED <<bpc, listener, is_shut_down, shutdown_flag, sigint, exited, opened,
                   launches, responses>>
    /\ UNCHANGED xvars

\* the handler parses the request and sends the status line and the headers
HandleHead ==
    /\ mpc = "parse" /\ ~exited
    /\ wire' = HandleHeadOf(cur.req).out
    /\ mpc' = IF HasBody(cur.req) THEN "body" ELSE "finish"
    /\ UNCHANGED <<bpc, listener, is_shut_down, shutdown_flag, sigint, exited, opened,
                   launches, cur, responses, nreq>>
    /\ UNCHANGED xvars

\* the handler writes the body: the file, or the page of send_error
HandleBody ==
    /\ mpc = "body" /\ ~exited
    /\ wire' = Append(wire, <<"body", StatusOf(cur.req)>>)
    /\ mpc' = "finish"
    /\ UNCHANGED <<bpc, listener, is_shut_down, shutdown_flag, sigint, exited, opened,
                   launches, cur, responses, nreq>>
    /\ UNCHANGED xvars

\* process_request: the handler has returned; shutdown_request closes the
\* connection and the loop goes back to select()
FinishRequest ==
    /\ mpc = "finish" /\ ~exited
    /\ responses' = Append(responses, [req |-> cur.req, wire |-> wire, status |-> "complete",
                                       browser |-> cur.browser])
    /\ cur' = NoRequest
    /\ wire' = <<>>
    /\ mpc' = "select"
    /\ UNCHANGED <<bpc, listener, is_shut_down, shutdown_flag, sigint, exited, opened,
                   launches, nreq>>
    /\ UNCHANGED xvars

\* KeyboardInterrupt raised in the main thread before line 39: nothing
\* catches it; the with block closes the socket if it is open
InterruptAtStartup ==
    /\ sigint = "none" /\ ~exited
    /\ mpc \in {"start", "bind", "banner"}
    /\ sigint' = "startup"
    /\ mpc' = "crashed"
    /\ listener' = IF listener = "bound" THEN "closed" ELSE listener
    /\ UNCHANGED <<bpc, is_shut_down, shutdown_flag, exited, opened,
                   launches, cur, wire, responses, nreq>>
    /\ UNCHANGED xvars

\* KeyboardInterrupt raised inside the try of line 39 but before the try
\* block of serve_forever is entered: its finally clause does not run
InterruptBeforeLoop ==
    /\ sigint = "none" /\ ~exited
    /\ mpc = "call_serve"
    /\ sigint' = "pre_loop"
    /\ mpc' = "except"
    /\ UNCHANGED <<bpc, listener, is_shut_down, shutdown_flag, exited, opened,
                   launches, cur, wire, responses, nreq>>
    /\ UNCHANGED xvars

\* KeyboardInterrupt raised while serve_forever waits in select(): the
\* finally clause of serve_forever runs and line 41 catches the exception
InterruptWhileWaiting ==
    /\ sigint = "none" /\ ~exited
    /\ mpc = "select"
    /\ sigint' = "waiting"
    /\ shutdown_flag' = FALSE
    /\ is_shut_down' = TRUE
    /\ mpc' = "except"
    /\ UNCHANGED <<bpc, listener, exited, opened, launches, cur, wire, responses, nreq>>
    /\ UNCHANGED xvars

\* the same with the connection of the request left open
InterruptWhileHandlingNoClose ==
    /\ sigint = "none" /\ ~exited
    /\ mpc \in {"parse", "body", "finish"}
    /\ sigint' = "handling"
    /\ shutdown_flag' = FALSE
    /\ is_shut_down' = TRUE
    /\ mpc' = "except"
    /\ UNCHANGED <<bpc, listener, exited, opened, launches, cur, wire, responses, nreq>>
    /\ UNCHANGED xvars

\* KeyboardInterrupt raised while a request is handled: it is no Exception,
\* so _handle_request_noblock closes the connection (shutdown_request) and
\* re-raises; then as in InterruptWhileWaiting
InterruptWhileHandling ==
    /\ sigint = "none" /\ ~exited
    /\ mpc \in {"parse", "body", "finish"}
    /\ sigint' = "handling"
    /\ responses' = Append(responses,
                        [req |-> cur.req, wire |-> wire,
                         status |-> IF mpc = "finish" THEN "complete" ELSE "aborted",
                         browser |-> cur.browser])
    /\ cur' = NoRequest
    /\ wire' = <<>>
    /\ shutdown_flag' = FALSE
    /\ is_shut_down' = TRUE
    /\ mpc' = "except"
    /\ UNCHANGED <<bpc, listener, exited, opened, launches, nreq>>
    /\ UNCHANGED xvars

\* lines 41-43: print, then httpd.shutdown() sets __shutdown_request and
\* starts to wait for __is_shut_down
ExceptKeyboardInterrupt ==
    /\ mpc = "except" /\ ~exited
    /\ shutdown_flag' = TRUE
    /\ mpc' = "shutdown_wait"
    /\ UNCHANGED <<bpc, listener, is_shut_down, sigint, exited, opened,
                   launches, cur, wire, responses, nreq>>
    /\ UNCHANGED xvars

\* __is_shut_down.wait() returns; the with block closes the socket and
\* start_server returns
ShutdownReturns ==
    /\ mpc = "shutdown_wait" /\ ~exited
    /\ is_shut_down
    /\ listener' = "closed"
    /\ mpc' = "returned"
    /\ UNCHANGED <<bpc, is_shut_down, shutdown_flag, sigint, exited, opened,
                   launches, cur, wire, responses, nreq>>
    /\ UNCHANGED xvars

\* the main thread has ended (line 58 returned, or an exception reached the
\* top): the interpreter exits without waiting for daemon threads
ProcessExit ==
    /\ mpc \in {"returned", "crashed"} /\ ~exited
    /\ BrowserThreadDaemon \/ bpc \in {"unstarted", "done", "crashed"}
    /\ exited' = TRUE
    /\ bpc' = IF bpc \in {"sleep", "open"} THEN "killed" ELSE bpc
    /\ UNCHANGED <<mpc, listener, is_shut_down, shutdown_flag, sigint, opened,
                   launches, cur, wire, responses, nreq>>
    /\ UNCHANGED xvars

\* line 47: time.sleep(1) returns
BrowserWake ==
    /\ bpc = "sleep" /\ ~exited
    /\ bpc' = "open"
    /\ UNCHANGED <<mpc, listener, is_shut_down, shutdown_flag, sigint, exited, opened,
                   launches, cur, wire, responses, nreq>>
    /\ UNCHANGED xvars

\* lines 48-49: webbrowser.open returns and the thread ends
BrowserOpen ==
    /\ bpc = "open" /\ ~exited
    /\ launches' = launches + 1
    /\ opened' = IF listener \in {"bound", "closed"} THEN "bound" ELSE "unbound"
    /\ bpc' = "done"
    /\ UNCHANGED <<mpc, listener, is_shut_down, shutdown_flag, sigint, exited,
                   cur, wire, responses, nreq>>
    /\ UNCHANGED xvars

\* a failed launch that takes the whole process down
BrowserLaunchFailsProcess ==
    /\ bpc = "open" /\ ~exited
    /\ launches' = launches + 1
    /\ bpc' = "crashed"
    /\ mpc' = "crashed"
    /\ UNCHANGED <<listener, is_shut_down, shutdown_flag, sigint, exited, opened,
                   cur, wire, responses, nreq>>
    /\ UNCHANGED xvars

\* line 48: webbrowser.open raises; nothing in open_browser catches it, and
\* the exception ends browser_thread only
BrowserLaunchFails ==
    /\ bpc = "open" /\ ~exited
    /\ launches' = launches + 1
    /\ bpc' = "crashed"
    /\ UNCHANGED <<mpc, listener, is_shut_down, shutdown_flag, sigint, exited, opened,
                   cur, wire, responses, nreq>>
    /\ UNCHANGED xvars

MainThread ==
    \/ StartBrowserThread
    \/ Bind
    \/ Banner
    \/ ServeForever
    \/ HandleHead
    \/ HandleBody
    \/ FinishRequest
    \/ ExceptKeyboardInterrupt
    \/ ShutdownReturns
    \/ ProcessExit

NextServer ==
    \/ StartBrowserThread
    \/ Bind
    \/ Banner
    \/ ServeForever
    \/ Accept
    \/ HandleHead
    \/ HandleBody
    \/ FinishRequest
    \/ InterruptAtStartup
    \/ InterruptBeforeLoop
    \/ InterruptWhileWaiting
    \/ InterruptWhileHandling
    \/ ExceptKeyboardInterrupt
    \/ ShutdownReturns
    \/ ProcessExit
    \/ BrowserWake
    \/ BrowserOpen
    \/ BrowserLaunchFails

SpecServer == InitServer /\ [][NextServer]_vars

\* The main thread keeps running while it has something to do; nothing is
\* assumed of clients, of the interrupt or of browser_thread.
FairSpecServer == SpecServer /\ WF_vars(MainThread)

(***************************************************************************)
(* Properties of the DevServer.                                            *)
(***************************************************************************)
\* Everything written to a socket so far: the closed connections and the
\* one being handled.
AllWires == {responses[i].wire : i \in 1..Len(responses)} \cup {wire}

\* The three CORS headers are in the header section, before the blank line
\* that ends it.
CorsBeforeTerminator(w) ==
    \E t \in 1..Len(w) :
        /\ w[t] = CRLF
        /\ \A j \in 1..(t - 1) : w[j] # CRLF
        /\ \A h \in CorsHeaders : \E j \in 1..(t - 1) : w[j] = h

HasHeaderSection(w) == \E i \in 1..Len(w) : w[i][1] \in {"status", "CRLF"}

\* The request line names a version the server accepts, or is too long.
SentWithHeaders(r) == r.words = 0 \/ (r.words = 3 /\ r.version = "HTTP/1.1")

\* C6 as stated: every response the server sends (200, not found or any
\* other error) carries the three CORS headers before the end of its
\* header section.
C6_EveryResponseHasCors ==
    \A w \in AllWires : w # <<>> => CorsBeforeTerminator(w)

\* C6 as amended: every response that has a header section carries the
\* three CORS headers before the blank line that ends it, and every response
\* to a request line that names HTTP/1.x (200, 404, 501) or is too long (414)
\* has one; an HTTP/0.9-style response has no header at all.
C6_EveryHeaderSectionHasCors ==
    /\ \A w \in AllWires : HasHeaderSection(w) => CorsBeforeTerminator(w)
    /\ \A i \in 1..Len(responses) :
           SentWithHeaders(responses[i].req) /\ responses[i].wire # <<>>
               => CorsBeforeTerminator(responses[i].wire)
    /\ SentWithHeaders(cur.req) /\ wire # <<>> => CorsBeforeTerminator(wire)

\* C6 witness: a 200 and a 404 have been sent in full, with the headers.
C6_Witness ==
    \E i, j \in 1..Len(responses) :
        /\ responses[i].status = "complete" /\ responses[i].wire[1] = <<"status", 200>>
        /\ responses[j].status = "complete" /\ responses[j].wire[1] = <<"status", 404>>
        /\ CorsBeforeTerminator(responses[i].wire)
        /\ CorsBeforeTerminator(responses[j].wire)

\* A response sent in full ends with its body (with its header section when
\* it has no body).
Whole(r) ==
    /\ r.wire # <<>>
    /\ r.wire[Len(r.wire)][1] = (IF HasBody(r.req) THEN "body" ELSE "CRLF")

\* C7 as stated: an interrupt never aborts a request mid-response; a request
\* whose handling has begun is completed before the accept loop exits.
C7_NoRequestAborted ==
    /\ \A i \in 1..Len(responses) : responses[i].status # "aborted"
    /\ ~InLoop(mpc) => cur = NoRequest

\* C7 as amended: an interrupt raised while the loop waits aborts nothing;
\* an interrupt raised while a request is handled cuts off that one request,
\* the last one, by closing its connection before the loop exits; every
\* other request was answered in full.
C7_OnlyTheRequestInProgressIsAborted ==
    /\ \A i \in 1..Len(responses) :
           /\ responses[i].status = "aborted" => sigint = "handling" /\ i = Len(responses)
           /\ responses[i].status = "complete" => Whole(responses[i])
    /\ sigint = "handling" => responses # <<>>
    /\ ~InLoop(mpc) => cur = NoRequest

\* C7 witness: a request was cut off after its headers and before its body.
C7_Witness ==
    /\ sigint = "handling" /\ responses # <<>>
    /\ LET r == responses[Len(responses)]
       IN r.status = "aborted" /\ r.wire # <<>> /\ ~Whole(r)

\* C8: after an interrupt is raised in a serving DevServer (in its accept
\* loop), httpd.shutdown() returns, start_server returns and the process
\* exits, whatever browser_thread is doing.
C8_InterruptTerminates ==
    (sigint \in {"waiting", "handling"}) ~> (exited /\ mpc = "returned")

\* C8 witness: the process exited after an interrupt while browser_thread
\* was still running.
C8_Witness ==
    /\ exited /\ mpc = "returned" /\ sigint \in {"waiting", "handling"}
    /\ bpc = "killed"

\* What the main thread reads and writes.
mainState == <<mpc, listener, is_shut_down, shutdown_flag, sigint, exited, cur, wire,
               responses, nreq>>

\* C9: a failed browser launch does not affect the main thread: the steps
\* of browser_thread change nothing of the main thread, which after the
\* failure keeps accepting requests and leaves the accept loop only by an
\* interrupt; and browser_thread calls webbrowser.open at most once.
C9_BrowserFailureIsolated ==
    /\ [](launches <= 1)
    /\ [][bpc # "unstarted" /\ bpc' # bpc /\ ~exited' => UNCHANGED mainState]_vars
    /\ [][bpc = "crashed" /\ InLoop(mpc) /\ ~InLoop(mpc')
             => sigint = "none" /\ sigint' # "none"]_vars
    /\ [](bpc = "crashed" /\ mpc = "select" /\ sigint = "none" /\ nreq < MaxRequests
             => ENABLED Accept)

\* C9 witness: a request accepted after browser_thread had crashed was
\* answered in full.
C9_Witness ==
    \E i \in 1..Len(responses) :
        responses[i].browser = "crashed" /\ responses[i].status = "complete"

\* C10: the browser is opened only after the listener has been bound; never
\* in a run where binding fails or has not happened yet.
C10_BrowserOpenedOnlyAfterBind == opened # "unbound"

====
